---- MODULE Spec2Model ----
(***************************************************************************)
(* Model of openscad_release_tool.py: the per-character CopyAndParse       *)
(* scanner, its include/use/import path resolution, the recursive copy     *)
(* into the output tree and the license sweep of _find_license_files.      *)
(*                                                                         *)
(* Python strings (paths and file contents) are sequences of one-character *)
(* strings, so "/p/m" is <<"/", "p", "/", "m">>.  The filesystem is one    *)
(* tree shared by the sources, the library roots and the output tree.      *)
(***************************************************************************)
EXTENDS Integers, Sequences, FiniteSets, TLC

VARIABLES
  files,              \* filesystem: canonical path -> content of each regular file
  dirs,               \* filesystem: canonical paths of the directories
  cwd,                \* working directory of the process
  INCLUDE_PATHS,      \* ordered library roots (module global INCLUDE_PATHS)
  pathname,           \* entry file given to create_release_directory
  ignore_imports,     \* --ignore_imports
  stack,              \* call stack of CopyAndParse objects, innermost last
  used_library_dirs,  \* the set shared by every CopyAndParse
  pc,                 \* position of the top-level program
  error,              \* name of the exception that ended the run, or "none"
  warnings,           \* number of logging.warning calls so far
  stop_paths,         \* _find_license_files: stop_paths in its iteration order
  already_copied,     \* _find_license_files: already_copied
  todo,               \* _find_license_files: library dirs the for loop has not taken yet
  library_dir,        \* _find_license_files: loop variable of the while loop
  walk_from,          \* history: the library dir the current while loop started from
  visited,            \* history: <<start, directory>> of every find_files call
  io,                 \* history: file reads, writes and skipped copies, in order
  earlier             \* history: the input of the run and the result of a run before it

vars == <<files, dirs, cwd, earlier, INCLUDE_PATHS, pathname, ignore_imports, stack,
          used_library_dirs, pc, error, warnings, stop_paths, already_copied,
          todo, library_dir, walk_from, visited, io>>

(***************************************************************************)
(* str helpers                                                             *)
(***************************************************************************)
startswith(s, p) == Len(p) <= Len(s) /\ SubSeq(s, 1, Len(p)) = p

endswith(s, p) == Len(p) <= Len(s) /\ SubSeq(s, Len(s) - Len(p) + 1, Len(s)) = p

\* s[n:]
From(s, n) == SubSeq(s, n + 1, Len(s))

\* s[:-1]
ButLast(s) == SubSeq(s, 1, Len(s) - 1)

\* s.find(sub): 0-based index of the first occurrence, -1 when there is none
find(s, sub) ==
  LET hits == {i \in 0..(Len(s) - Len(sub)) : SubSeq(s, i + 1, i + Len(sub)) = sub}
  IN IF hits = {} THEN -1 ELSE CHOOSE i \in hits : \A j \in hits : i <= j

RECURSIVE FlattenSeq(_)
FlattenSeq(ss) == IF ss = <<>> THEN <<>> ELSE Head(ss) \o FlattenSeq(Tail(ss))

(***************************************************************************)
(* posixpath                                                               *)
(***************************************************************************)
isabs(p) == startswith(p, <<"/">>)

join(a, b) ==
  IF isabs(b) THEN b
  ELSE IF a = <<>> \/ a[Len(a)] = "/" THEN a \o b
  ELSE a \o <<"/">> \o b

RECURSIVE rfind_slash(_, _)
rfind_slash(p, i) ==
  IF i = 0 THEN 0 ELSE IF p[i] = "/" THEN i ELSE rfind_slash(p, i - 1)

RECURSIVE rstrip_slash(_)
rstrip_slash(h) ==
  IF h /= <<>> /\ h[Len(h)] = "/" THEN rstrip_slash(ButLast(h)) ELSE h

split(p) ==
  LET i == rfind_slash(p, Len(p))
      head == SubSeq(p, 1, i)
      tail == SubSeq(p, i + 1, Len(p))
  IN <<IF head /= <<>> /\ (\E k \in 1..Len(head) : head[k] /= "/")
       THEN rstrip_slash(head) ELSE head,
       tail>>

dirname(p) == split(p)[1]

\* p.split('/')
RECURSIVE components(_)
components(p) ==
  LET i == find(p, <<"/">>)
  IN IF i = -1 THEN <<p>>
     ELSE <<SubSeq(p, 1, i)>> \o components(From(p, i + 1))

\* '/'.join(comps)
RECURSIVE slash_join(_)
slash_join(comps) ==
  IF comps = <<>> THEN <<>>
  ELSE IF Len(comps) = 1 THEN comps[1]
  ELSE comps[1] \o <<"/">> \o slash_join(Tail(comps))

RECURSIVE norm_comps(_, _, _)
norm_comps(comps, new_comps, initial_slashes) ==
  IF comps = <<>> THEN new_comps
  ELSE LET comp == Head(comps) IN
    IF comp = <<>> \/ comp = <<".">>
    THEN norm_comps(Tail(comps), new_comps, initial_slashes)
    ELSE IF comp /= <<".", ".">>
            \/ (initial_slashes = 0 /\ new_comps = <<>>)
            \/ (new_comps /= <<>> /\ new_comps[Len(new_comps)] = <<".", ".">>)
    THEN norm_comps(Tail(comps), Append(new_comps, comp), initial_slashes)
    ELSE IF new_comps /= <<>>
    THEN norm_comps(Tail(comps), ButLast(new_comps), initial_slashes)
    ELSE norm_comps(Tail(comps), new_comps, initial_slashes)

normpath(path) ==
  IF path = <<>> THEN <<".">>
  ELSE LET initial_slashes ==
             IF ~startswith(path, <<"/">>) THEN 0
             ELSE IF startswith(path, <<"/", "/">>) /\ ~startswith(path, <<"/", "/", "/">>)
             THEN 2 ELSE 1
           body == slash_join(norm_comps(components(path), <<>>, initial_slashes))
           res == [i \in 1..initial_slashes |-> "/"] \o body
       IN IF res = <<>> THEN <<".">> ELSE res

abspath_in(wd, path) == normpath(IF isabs(path) THEN path ELSE join(wd, path))

abspath(path) == abspath_in(cwd, path)

NonEmpty(comps) == SelectSeq(comps, LAMBDA x : x /= <<>>)

RECURSIVE commonprefix_len(_, _)
commonprefix_len(a, b) ==
  IF a = <<>> \/ b = <<>> \/ Head(a) /= Head(b) THEN 0
  ELSE 1 + commonprefix_len(Tail(a), Tail(b))

relpath_list(start_list, path_list) ==
  LET i == commonprefix_len(start_list, path_list)
  IN [k \in 1..(Len(start_list) - i) |-> <<".", ".">>] \o From(path_list, i)

relpath(path, start) ==
  LET start_list == NonEmpty(components(abspath(start)))
      path_list == NonEmpty(components(abspath(path)))
      rel_list == relpath_list(start_list, path_list)
  IN IF rel_list = <<>> THEN <<".">> ELSE slash_join(rel_list)

(***************************************************************************)
(* The filesystem: lookup follows a path one component at a time, as the   *)
(* kernel does, so a/../b needs a to be an existing directory.             *)
(***************************************************************************)
NoEnt == <<>>

RECURSIVE walk(_, _, _, _)
walk(D, F, cur, comps) ==
  IF comps = <<>> THEN cur
  ELSE IF cur \notin D THEN NoEnt
  ELSE LET c == Head(comps) IN
    IF c = <<>> \/ c = <<".">> THEN walk(D, F, cur, Tail(comps))
    ELSE IF c = <<".", ".">> THEN walk(D, F, dirname(cur), Tail(comps))
    ELSE LET nxt == join(cur, c)
         IN IF nxt \in D \cup F THEN walk(D, F, nxt, Tail(comps)) ELSE NoEnt

\* canonical path of the file or directory that path names, NoEnt if there is none
lookup(D, F, wd, path) ==
  IF path = <<>> THEN NoEnt
  ELSE walk(D, F, IF isabs(path) THEN <<"/">> ELSE wd, components(path))

realpath(path) == lookup(dirs, DOMAIN files, cwd, path)

exists(path) == realpath(path) /= NoEnt

isdir(path) == realpath(path) \in dirs

mkdir(D, F, wd, name) ==
  LET sp == split(name)
      par == lookup(D, F, wd, IF sp[1] = <<>> THEN <<".">> ELSE sp[1])
  IN IF par \notin D THEN [dirs |-> D, err |-> "FileNotFoundError"]
     ELSE IF sp[2] \in {<<".">>, <<".", ".">>} \/ lookup(D, F, wd, name) /= NoEnt
     THEN [dirs |-> D, err |-> "FileExistsError"]
     ELSE [dirs |-> D \cup {join(par, sp[2])}, err |-> "none"]

RECURSIVE makedirs_in(_, _, _, _)
makedirs_in(D, F, wd, name) ==
  LET s1 == split(name)
      ht == IF s1[2] = <<>> THEN split(s1[1]) ELSE s1
      head == ht[1]
      tail == ht[2]
  IN IF head /= <<>> /\ tail /= <<>> /\ lookup(D, F, wd, head) = NoEnt
     THEN LET r == makedirs_in(D, F, wd, head)
          IN IF r.err \notin {"none", "FileExistsError"} THEN r
             ELSE IF tail = <<".">> THEN [dirs |-> r.dirs, err |-> "none"]
             ELSE mkdir(r.dirs, F, wd, name)
     ELSE mkdir(D, F, wd, name)

makedirs(name) == makedirs_in(dirs, DOMAIN files, cwd, name)

\* shutil.copy(src, dst): the new file table, or the exception it raises
shutil_copy(D, FL, src, dst) ==
  LET F == DOMAIN FL
      d1 == IF lookup(D, F, cwd, dst) \in D THEN join(dst, split(src)[2]) ELSE dst
      srcReal == lookup(D, F, cwd, src)
      dstReal == lookup(D, F, cwd, d1)
      sp == split(d1)
      par == lookup(D, F, cwd, IF sp[1] = <<>> THEN <<".">> ELSE sp[1])
      newpath == IF dstReal /= NoEnt THEN dstReal ELSE join(par, sp[2])
  IN IF srcReal = NoEnt THEN [err |-> "FileNotFoundError", files |-> FL, dst |-> NoEnt]
     ELSE IF srcReal \in D THEN [err |-> "IsADirectoryError", files |-> FL, dst |-> NoEnt]
     ELSE IF dstReal = srcReal THEN [err |-> "SameFileError", files |-> FL, dst |-> NoEnt]
     ELSE IF dstReal \in D THEN [err |-> "IsADirectoryError", files |-> FL, dst |-> NoEnt]
     ELSE IF par \notin D THEN [err |-> "FileNotFoundError", files |-> FL, dst |-> NoEnt]
     ELSE [err |-> "none",
           files |-> [x \in F \cup {newpath} |-> IF x = newpath THEN FL[srcReal] ELSE FL[x]],
           dst |-> newpath]

(***************************************************************************)
(* CopyAndParse: one record per object.  "at" is where its run() stands:   *)
(* "run" before the existence test, "loop" in the character loop, "call"   *)
(* while the run() of an included file is in progress.  fout holds what    *)
(* has been written to the open target file fd; it reaches the filesystem  *)
(* when the file is closed.                                                *)
(***************************************************************************)
root_output_dir == <<"/", "o">>

lib_dirname == <<"l">>

Upper == {"A", "B", "C", "D", "E", "F", "G", "H", "I", "J", "K", "L", "M",
          "N", "O", "P", "Q", "R", "S", "T", "U", "V", "W", "X", "Y", "Z"}

Lower == {"a", "b", "c", "d", "e", "f", "g", "h", "i", "j", "k", "l", "m",
          "n", "o", "p", "q", "r", "s", "t", "u", "v", "w", "x", "y", "z"}

Digit == {"0", "1", "2", "3", "4", "5", "6", "7", "8", "9"}

Top == stack[Len(stack)]

\* CopyAndParse that hands the ignore_imports flag to the entry file only
CopyAndParse_entry_flag(source_path, lib, root_input, root_output, target_path, indent, ignore) ==
  [source_path |-> source_path,
   lib_dirname |-> lib,
   root_input_dir |-> <<>>,      \* the class default: __init__ never stores its argument
   root_output_dir |-> root_output,
   target_path |-> target_path,
   indent |-> indent,
   ignore_imports |-> ignore /\ indent = 0,
   file_chars |-> <<>>,
   file_data |-> <<>>,
   pos |-> 1,
   state |-> "_looking_for_word",
   fout |-> <<>>,
   fd |-> NoEnt,
   warned |-> 0,
   at |-> "run"]

CopyAndParse(source_path, lib, root_input, root_output, target_path, indent, ignore) ==
  [source_path |-> source_path,
   lib_dirname |-> lib,
   root_input_dir |-> <<>>,      \* the class default: __init__ never stores its argument
   root_output_dir |-> root_output,
   target_path |-> target_path,
   indent |-> indent,
   ignore_imports |-> ignore,
   file_chars |-> <<>>,
   file_data |-> <<>>,
   pos |-> 1,
   state |-> "_looking_for_word",
   fout |-> <<>>,
   fd |-> NoEnt,
   warned |-> 0,
   at |-> "run"]

write(f, s) == [f EXCEPT !.fout = @ \o s]

_looking_for_word(f, c) ==
  IF c \in {"\n", " ", "\t"}
  THEN [write(f, <<c>>) EXCEPT !.state = "_looking_for_word"]
  ELSE [write(f, <<c>>) EXCEPT !.file_chars = <<c>>, !.state = "_building_word"]

\* _looking_for_eol that passes over the comment without writing it
_looking_for_eol_silent(f, c, fout) ==
  IF c /= "\n" THEN [f EXCEPT !.state = "_looking_for_eol"]
  ELSE [f EXCEPT !.state = "_looking_for_word"]

_looking_for_eol(f, c, fout) ==
  LET g == IF fout THEN write(f, <<c>>) ELSE f
  IN IF c /= "\n" THEN [g EXCEPT !.state = "_looking_for_eol"]
     ELSE [g EXCEPT !.state = "_looking_for_word"]

_looking_for_end_of_comment(f, c) ==
  IF c = "/" /\ f.file_chars[Len(f.file_chars) - 1] = "*"
  THEN [write(f, <<c>>) EXCEPT !.state = "_looking_for_word"]
  ELSE [write(f, <<c>>) EXCEPT !.state = "_looking_for_end_of_comment"]

\* _looking_for_semicolon that goes back to _looking_for_word after one
\* character, whatever it is
_looking_for_semicolon_eager(f, c, fout) ==
  LET g == IF fout THEN write(f, <<c>>) ELSE f
  IN [g EXCEPT !.state = "_looking_for_word"]

_looking_for_semicolon(f, c, fout) ==
  LET g == IF fout THEN write(f, <<c>>) ELSE f
  IN IF c /= ";" THEN [g EXCEPT !.state = "_looking_for_semicolon"]
     ELSE [g EXCEPT !.state = "_looking_for_word"]

\* ''.join(word.split(sep)): word without the occurrences of sep
RECURSIVE split_join(_, _)
split_join(word, sep) ==
  LET i == find(word, sep)
  IN IF i = -1 THEN word
     ELSE SubSeq(word, 1, i) \o split_join(From(word, i + Len(sep)), sep)

\* _looking_for_import without the test for the closing parenthesis
_looking_for_import_unclosed(f, c, fout) ==
  LET g == IF fout THEN write(f, <<c>>) ELSE f
      word == split_join(g.file_chars, <<" ", "\n", "\t">>)
  IN IF c /= "\""
     THEN [g EXCEPT !.state = "_looking_for_import"]
     ELSE IF ~endswith(word, <<"(", "\"">>)
             /\ ~endswith(word, <<"f", "i", "l", "e", "=", "\"">>)
     THEN [g EXCEPT !.state = "_looking_for_import"]
     ELSE [g EXCEPT !.file_chars = <<>>, !.state = "_build_import_path"]

_looking_for_import(f, c, fout) ==
  LET g == IF fout THEN write(f, <<c>>) ELSE f
      word == split_join(g.file_chars, <<" ", "\n", "\t">>)
  IN IF c = ")"
     THEN [g EXCEPT !.warned = @ + 1, !.state = "_looking_for_word"]
     ELSE IF c /= "\""
     THEN [g EXCEPT !.state = "_looking_for_import"]
     ELSE IF ~endswith(word, <<"(", "\"">>)
             /\ ~endswith(word, <<"f", "i", "l", "e", "=", "\"">>)
     THEN [g EXCEPT !.state = "_looking_for_import"]
     ELSE [g EXCEPT !.file_chars = <<>>, !.state = "_build_import_path"]

_looking_for_include(f, c, fout) ==
  LET g == IF fout THEN write(f, <<c>>) ELSE f
  IN IF c \in {" ", "\t", "\n"} THEN [g EXCEPT !.state = "_looking_for_include"]
     ELSE IF c = "<"
     THEN [g EXCEPT !.file_chars = <<>>, !.state = "_building_include_path"]
     ELSE [g EXCEPT !.state = "_looking_for_word"]

_building_word(f, c) ==
  LET g == write(f, <<c>>)
      word == ButLast(f.file_chars)
  IN IF c = "/" /\ f.file_chars[Len(f.file_chars) - 1] = "/"
     THEN [g EXCEPT !.state = "_looking_for_eol"]
     ELSE IF c = "*" /\ f.file_chars[Len(f.file_chars) - 1] = "/"
     THEN [g EXCEPT !.state = "_looking_for_end_of_comment"]
     ELSE IF c \in Upper \cup Lower \cup Digit \cup {"_"}
     THEN [g EXCEPT !.state = "_building_word"]
     ELSE IF word \in {<<"i", "n", "c", "l", "u", "d", "e">>, <<"u", "s", "e">>}
     THEN _looking_for_include(g, c, FALSE)
     ELSE IF word = <<"i", "m", "p", "o", "r", "t">> /\ ~f.ignore_imports
     THEN _looking_for_import(g, c, FALSE)
     ELSE [g EXCEPT !.state = "_looking_for_word"]

\* _find_included_file that searches the library roots before the directory
\* of the referencing file
_find_included_file_libfirst(f, include_path) ==
  LET source_dir == split(f.source_path)[1]
      output_dir == split(f.target_path)[1]
      hits == {i \in 1..Len(INCLUDE_PATHS) : exists(join(INCLUDE_PATHS[i], include_path))}
  IN IF hits /= {}
     THEN LET include_prefix == INCLUDE_PATHS[CHOOSE i \in hits : \A j \in hits : i <= j]
              output_path == join(join(f.root_output_dir, f.lib_dirname), include_path)
          IN [found |-> TRUE,
              source_path |-> join(include_prefix, include_path),
              target_path |-> output_path,
              new_include_path |-> relpath(output_path, output_dir)]
     ELSE IF exists(join(source_dir, include_path))
     THEN [found |-> TRUE,
           source_path |-> join(source_dir, include_path),
           target_path |-> join(output_dir, include_path),
           new_include_path |-> include_path]
     ELSE [found |-> FALSE, source_path |-> <<>>, target_path |-> <<>>,
           new_include_path |-> <<>>]

\* _find_included_file that writes the library literal as seen from the output
\* root, wherever the referencing file is
_find_included_file_rootrel(f, include_path) ==
  LET source_dir == split(f.source_path)[1]
      output_dir == split(f.target_path)[1]
      hits == {i \in 1..Len(INCLUDE_PATHS) : exists(join(INCLUDE_PATHS[i], include_path))}
  IN IF exists(join(source_dir, include_path))
     THEN [found |-> TRUE,
           source_path |-> join(source_dir, include_path),
           target_path |-> join(output_dir, include_path),
           new_include_path |-> include_path]
     ELSE IF hits /= {}
     THEN LET include_prefix == INCLUDE_PATHS[CHOOSE i \in hits : \A j \in hits : i <= j]
              output_path == join(join(f.root_output_dir, f.lib_dirname), include_path)
          IN [found |-> TRUE,
              source_path |-> join(include_prefix, include_path),
              target_path |-> output_path,
              new_include_path |-> join(f.lib_dirname, include_path)]
     ELSE [found |-> FALSE, source_path |-> <<>>, target_path |-> <<>>,
           new_include_path |-> <<>>]

_find_included_file(f, include_path) ==
  LET source_dir == split(f.source_path)[1]
      output_dir == split(f.target_path)[1]
      hits == {i \in 1..Len(INCLUDE_PATHS) : exists(join(INCLUDE_PATHS[i], include_path))}
  IN IF exists(join(source_dir, include_path))
     THEN [found |-> TRUE,
           source_path |-> join(source_dir, include_path),
           target_path |-> join(output_dir, include_path),
           new_include_path |-> include_path]
     ELSE IF hits /= {}
     THEN LET include_prefix == INCLUDE_PATHS[CHOOSE i \in hits : \A j \in hits : i <= j]
              output_path == join(join(f.root_output_dir, f.lib_dirname), include_path)
          IN [found |-> TRUE,
              source_path |-> join(include_prefix, include_path),
              target_path |-> output_path,
              new_include_path |-> relpath(output_path, output_dir)]
     ELSE [found |-> FALSE, source_path |-> <<>>, target_path |-> <<>>,
           new_include_path |-> <<>>]

\* the part of _build_import_path that names the source, the target and the literal
import_paths(f, import_path) ==
  LET stripped == IF startswith(import_path, <<"/">>) THEN From(import_path, 1)
                  ELSE import_path
      drive == find(stripped, <<":", "\\">>)
      undriven == IF drive /= -1 THEN From(stripped, drive + 2) ELSE stripped
      new_import_path == IF isabs(import_path) THEN join(f.lib_dirname, undriven)
                         ELSE import_path
      first == IF isabs(import_path) THEN import_path
               ELSE join(dirname(f.source_path), import_path)
      import_abs_path == IF exists(first) THEN first
                         ELSE join(dirname(f.root_input_dir), import_path)
  IN [found |-> exists(import_abs_path),
      import_abs_path |-> import_abs_path,
      new_import_path |-> new_import_path,
      target_path |-> join(f.root_output_dir, new_import_path)]

(***************************************************************************)
(* The program, one action per handler                                     *)
(***************************************************************************)
\* history records: op is "scan" (run opened dst to copy src), "exists" (run
\* returned at once), "import" (shutil.copy of src to dst), "import_exists",
\* "license", or the name of the exception raised; by is the output file being
\* written when it happened and lit the path literal concerned
Event(op, src, dst, by, lit) == [op |-> op, src |-> src, dst |-> dst, by |-> by, lit |-> lit]

\* an exception that the calling run() catches: the failing scan is given up,
\* its file is closed, and the caller goes on with its own file
Unwind_caught(err, stk, FL, D, log) ==
  /\ pc' = IF Len(stk) = 1 THEN "failed" ELSE pc
  /\ error' = IF Len(stk) = 1 THEN err ELSE error
  /\ stack' = IF Len(stk) = 1 THEN <<>>
              ELSE [ButLast(stk) EXCEPT ![Len(stk) - 1].at = "loop",
                                        ![Len(stk) - 1].state = "_looking_for_word"]
  /\ files' = [x \in DOMAIN FL |->
                 IF stk[Len(stk)].at /= "run" /\ stk[Len(stk)].fd = x
                 THEN stk[Len(stk)].fout ELSE FL[x]]
  /\ dirs' = D
  /\ io' = log
  /\ UNCHANGED <<cwd, earlier, INCLUDE_PATHS, pathname, ignore_imports, used_library_dirs,
                 warnings, stop_paths, already_copied, todo, library_dir, walk_from,
                 visited>>

\* an exception leaves every run(): each "with open(...) as fout" closes its file
Unwind(err, stk, FL, D, log) ==
  /\ pc' = "failed"
  /\ error' = err
  /\ stack' = <<>>
  /\ files' = [x \in DOMAIN FL |->
                 IF \E i \in 1..Len(stk) : stk[i].at /= "run" /\ stk[i].fd = x
                 THEN stk[CHOOSE i \in 1..Len(stk) : stk[i].at /= "run" /\ stk[i].fd = x].fout
                 ELSE FL[x]]
  /\ dirs' = D
  /\ io' = log
  /\ UNCHANGED <<cwd, earlier, INCLUDE_PATHS, pathname, ignore_imports, used_library_dirs,
                 warnings, stop_paths, already_copied, todo, library_dir, walk_from,
                 visited>>

\* run() returns: the caller's handler returns self._looking_for_word, and the
\* outermost caller is create_release_directory, which goes on to the sweep
Return(FL, log) ==
  /\ files' = FL
  /\ io' = log
  /\ IF Len(stack) = 1
     THEN /\ stack' = <<>>
          /\ pc' = "find_license_files"
     ELSE /\ stack' = [ButLast(stack) EXCEPT ![Len(stack) - 1].at = "loop",
                                             ![Len(stack) - 1].state = "_looking_for_word"]
          /\ pc' = pc
  /\ UNCHANGED <<dirs, cwd, earlier, INCLUDE_PATHS, pathname, ignore_imports, used_library_dirs,
                 error, warnings, stop_paths, already_copied, todo, library_dir,
                 walk_from, visited>>

create_release_directory ==
  /\ pc = "start"
  /\ LET abs == abspath(pathname)
         filename == split(abs)[2]
     IN /\ stack' = <<CopyAndParse(abspath(abs), lib_dirname, dirname(abspath(abs)),
                                   root_output_dir, join(root_output_dir, filename), 0,
                                   ignore_imports)>>
        /\ used_library_dirs' = {abspath(dirname(abspath(abs)))}
  /\ pc' = "scan"
  /\ UNCHANGED <<files, dirs, cwd, earlier, INCLUDE_PATHS, pathname, ignore_imports, error,
                 warnings, stop_paths, already_copied, todo, library_dir, walk_from,
                 visited, io>>

\* run() without its test: every call copies and scans
target_exists_never(f) == FALSE

\* run() with a test that sees a target only once its scan is over
target_exists_closed(f) ==
  /\ exists(f.target_path)
  /\ \A i \in 1..Len(stack) :
       stack[i].at = "run" \/ stack[i].fd /= realpath(f.target_path)

\* the test that opens run(): os.path.exists(self.target_path)
target_exists(f) == exists(f.target_path)

run ==
  /\ pc = "scan" /\ stack /= <<>> /\ Top.at = "run"
  /\ LET f == Top
         F == DOMAIN files
         output_dir == split(f.target_path)[1]
         md == IF exists(output_dir) THEN [dirs |-> dirs, err |-> "none"]
               ELSE makedirs(output_dir)
         src == lookup(md.dirs, F, cwd, f.source_path)
         par == lookup(md.dirs, F, cwd, IF output_dir = <<>> THEN <<".">> ELSE output_dir)
         tgt == lookup(md.dirs, F, cwd, f.target_path)
         fd == join(par, split(f.target_path)[2])
     IN IF target_exists(f)
        THEN Return(files, Append(io, Event("exists", NoEnt, realpath(f.target_path), NoEnt, <<>>)))
        ELSE IF md.err /= "none" THEN Unwind(md.err, stack, files, md.dirs, io)
        ELSE IF src = NoEnt THEN Unwind("FileNotFoundError", stack, files, md.dirs, io)
        ELSE IF src \in md.dirs \/ tgt \in md.dirs
        THEN Unwind("IsADirectoryError", stack, files, md.dirs, io)
        ELSE IF par \notin md.dirs THEN Unwind("FileNotFoundError", stack, files, md.dirs, io)
        ELSE /\ stack' = [stack EXCEPT ![Len(stack)] =
                            [f EXCEPT !.file_data = files[src], !.fd = fd, !.at = "loop",
                                      !.state = "_looking_for_word"]]
             /\ files' = [x \in F \cup {fd} |-> IF x = fd THEN <<>> ELSE files[x]]
             /\ dirs' = md.dirs
             /\ io' = Append(io, Event("scan", src, fd, NoEnt, <<>>))
             /\ UNCHANGED <<cwd, earlier, INCLUDE_PATHS, pathname, ignore_imports,
                            used_library_dirs, pc, error, warnings, stop_paths,
                            already_copied, todo, library_dir, walk_from, visited>>

\* the character loop of run(): the next character c, appended to file_chars
Scanning(state) ==
  /\ pc = "scan" /\ stack /= <<>> /\ Top.at = "loop"
  /\ Top.pos <= Len(Top.file_data)
  /\ Top.state = state

Cur == Top.file_data[Top.pos]

Fed == [Top EXCEPT !.file_chars = Append(@, Cur), !.pos = @ + 1]

Continue(g) ==
  /\ stack' = [stack EXCEPT ![Len(stack)] = g]
  /\ warnings' = warnings + (g.warned - Top.warned)
  /\ UNCHANGED <<files, dirs, cwd, earlier, INCLUDE_PATHS, pathname, ignore_imports,
                 used_library_dirs, pc, error, stop_paths, already_copied, todo,
                 library_dir, walk_from, visited, io>>

looking_for_word == Scanning("_looking_for_word") /\ Continue(_looking_for_word(Fed, Cur))

building_word == Scanning("_building_word") /\ Continue(_building_word(Fed, Cur))

looking_for_eol == Scanning("_looking_for_eol") /\ Continue(_looking_for_eol(Fed, Cur, TRUE))

looking_for_end_of_comment ==
  Scanning("_looking_for_end_of_comment") /\ Continue(_looking_for_end_of_comment(Fed, Cur))

looking_for_semicolon ==
  Scanning("_looking_for_semicolon") /\ Continue(_looking_for_semicolon(Fed, Cur, TRUE))

looking_for_import ==
  Scanning("_looking_for_import") /\ Continue(_looking_for_import(Fed, Cur, TRUE))

looking_for_include ==
  Scanning("_looking_for_include") /\ Continue(_looking_for_include(Fed, Cur, TRUE))

build_import_path ==
  /\ Scanning("_build_import_path")
  /\ IF Cur /= "\"" THEN Continue(Fed)
     ELSE LET f == Fed
              r == import_paths(f, ButLast(f.file_chars))
              tdir == dirname(r.target_path)
              md == IF exists(tdir) THEN [dirs |-> dirs, err |-> "none"] ELSE makedirs(tdir)
              present == lookup(md.dirs, DOMAIN files, cwd, r.target_path)
              cp == shutil_copy(md.dirs, files, r.import_abs_path, r.target_path)
              stk == [stack EXCEPT ![Len(stack)] = f]
          IN IF ~r.found
             THEN Unwind("ImportNotFoundError", stk, files, dirs,
                         Append(io, Event("ImportNotFoundError", NoEnt, NoEnt, f.fd,
                                          ButLast(f.file_chars))))
             ELSE IF md.err /= "none" THEN Unwind(md.err, stk, files, md.dirs, io)
             ELSE IF present = NoEnt /\ cp.err /= "none"
             THEN Unwind(cp.err, stk, files, md.dirs, io)
             ELSE /\ stack' = [stack EXCEPT ![Len(stack)] =
                       [write(write(f, r.new_import_path), <<Cur>>)
                          EXCEPT !.state = "_looking_for_semicolon"]]
                  /\ files' = IF present = NoEnt THEN cp.files ELSE files
                  /\ dirs' = md.dirs
                  /\ io' = Append(io,
                             IF present = NoEnt
                             THEN Event("import", realpath(r.import_abs_path), cp.dst,
                                        f.fd, r.new_import_path)
                             ELSE Event("import_exists", NoEnt, present, f.fd,
                                        r.new_import_path))
                  /\ UNCHANGED <<cwd, earlier, INCLUDE_PATHS, pathname, ignore_imports,
                                 used_library_dirs, pc, error, warnings, stop_paths,
                                 already_copied, todo, library_dir, walk_from, visited>>

building_include_path ==
  /\ Scanning("_building_include_path")
  /\ IF Cur /= ">" THEN Continue(Fed)
     ELSE LET f == Fed
              r == _find_included_file(f, ButLast(f.file_chars))
          IN IF ~r.found
             THEN Unwind("IncludeNotFoundError", [stack EXCEPT ![Len(stack)] = f],
                         files, dirs,
                         Append(io, Event("IncludeNotFoundError", NoEnt, NoEnt, f.fd,
                                          ButLast(f.file_chars))))
             ELSE /\ stack' = Append(
                       [stack EXCEPT ![Len(stack)] =
                          [write(write(f, r.new_include_path), <<Cur>>) EXCEPT !.at = "call"]],
                       CopyAndParse(r.source_path, f.lib_dirname, f.root_input_dir,
                                    f.root_output_dir, r.target_path, f.indent + 1,
                                    f.ignore_imports))
                  /\ used_library_dirs' =
                       used_library_dirs \cup {abspath(dirname(r.source_path))}
                  /\ UNCHANGED <<files, dirs, cwd, earlier, INCLUDE_PATHS, pathname,
                                 ignore_imports, pc, error, warnings, stop_paths,
                                 already_copied, todo, library_dir, walk_from, visited,
                                 io>>

\* the character loop is over: the target file is closed and run() returns
end_of_file ==
  /\ pc = "scan" /\ stack /= <<>> /\ Top.at = "loop"
  /\ Top.pos > Len(Top.file_data)
  /\ Return([files EXCEPT ![Top.fd] = Top.fout], io)

(***************************************************************************)
(* _find_license_files                                                     *)
(***************************************************************************)
output_library_dir == join(root_output_dir, lib_dirname)

project_dir == dirname(abspath(pathname))

stop_set == {abspath(INCLUDE_PATHS[i]) : i \in 1..Len(INCLUDE_PATHS)} \cup {abspath(project_dir)}

Perms(S) == {q \in [1..Cardinality(S) -> S] : \A i, j \in 1..Cardinality(S) : q[i] = q[j] => i = j}

\* The iteration orders of the set stop_paths that can be told apart: the order
\* only shows when two stop paths are prefixes of one path, that is, when one
\* stop path is a prefix of another.
iteration_orders(S) ==
  IF \E a, b \in S : a /= b /\ startswith(a, b) THEN Perms(S)
  ELSE {CHOOSE q \in Perms(S) : TRUE}

contains_a_stop_path(d) ==
  \E i \in 1..Len(stop_paths) : stop_paths[i] /= <<>> /\ startswith(d, stop_paths[i])

\* copy_file(path) on the state st of the sweep
copy_file(st, path) ==
  LET hits == {i \in 1..Len(stop_paths) : startswith(path, stop_paths[i])}
      p == stop_paths[CHOOSE i \in hits : \A j \in hits : i <= j]
      output_path == join(output_library_dir, From(path, Len(p) + 1))
      cp == shutil_copy(dirs, st.files, path, output_path)
  IN IF st.err /= "none" \/ path \in st.already_copied THEN st
     ELSE IF hits = {} THEN [st EXCEPT !.err = "StopIteration"]
     ELSE IF cp.err /= "none" THEN [st EXCEPT !.err = cp.err]
     ELSE [files |-> cp.files,
           already_copied |-> st.already_copied \cup {path},
           err |-> "none",
           io |-> Append(st.io, Event("license", path, cp.dst, NoEnt, <<>>))]

RECURSIVE copy_files(_, _)
copy_files(st, paths) ==
  IF paths = <<>> THEN st ELSE copy_files(copy_file(st, Head(paths)), Tail(paths))

\* glob.glob(os.path.join(library_dir, '*' + suffix)): the matches, in no order
glob(dir, suffix) ==
  LET real == realpath(dir)
      names == {split(x)[2] : x \in {y \in dirs \cup DOMAIN files : y /= real /\ dirname(y) = real}}
  IN IF real \notin dirs THEN {}
     ELSE {join(dir, n) : n \in {m \in names : endswith(m, suffix) /\ m[1] /= "."}}

\* find_files(library_dir): the copy_file calls it makes, in each order glob allows
find_files(dir) ==
  LET named == SelectSeq(<<join(dir, <<"C", "O", "P", "Y", "I", "N", "G">>),
                           join(dir, <<"R", "E", "A", "D", "M", "E">>)>>,
                         LAMBDA x : exists(x))
  IN {named \o g1 \o g2 \o g3 \o g4 :
        g1 \in Perms(glob(dir, <<".", "m", "d">>)),
        g2 \in Perms(glob(dir, <<".", "M", "D">>)),
        g3 \in Perms(glob(dir, <<".", "t", "x", "t">>)),
        g4 \in Perms(glob(dir, <<".", "T", "X", "T">>))}

find_license_files ==
  /\ pc = "find_license_files"
  /\ stop_paths' \in iteration_orders(stop_set)
  /\ already_copied' = {}
  /\ todo' = used_library_dirs
  /\ pc' = "for"
  /\ UNCHANGED <<files, dirs, cwd, earlier, INCLUDE_PATHS, pathname, ignore_imports, stack,
                 used_library_dirs, error, warnings, library_dir, walk_from, visited, io>>

\* for library_dir in used_library_dirs: the next one, skipped with a warning
\* or taken into the while loop
for_library_dir ==
  /\ pc = "for"
  /\ \E d \in todo :
       /\ todo' = todo \ {d}
       /\ IF ~contains_a_stop_path(d)
          THEN /\ warnings' = warnings + 1
               /\ UNCHANGED <<pc, library_dir, walk_from>>
          ELSE /\ pc' = "while"
               /\ library_dir' = d
               /\ walk_from' = d
               /\ UNCHANGED warnings
  /\ UNCHANGED <<files, dirs, cwd, earlier, INCLUDE_PATHS, pathname, ignore_imports, stack,
                 used_library_dirs, error, stop_paths, already_copied, visited, io>>

\* one round of the while loop: find_files, the stop test, the step to the parent
while_true ==
  /\ pc = "while"
  /\ \E calls \in find_files(library_dir) :
       LET st == copy_files([files |-> files, already_copied |-> already_copied,
                             err |-> "none", io |-> io], calls)
       IN /\ files' = st.files
          /\ already_copied' = st.already_copied
          /\ io' = st.io
          /\ error' = st.err
          /\ IF st.err /= "none"
             THEN pc' = "failed" /\ UNCHANGED library_dir
             ELSE IF \E i \in 1..Len(stop_paths) : stop_paths[i] = library_dir
             THEN pc' = "for" /\ UNCHANGED library_dir
             ELSE pc' = "while" /\ library_dir' = dirname(library_dir)
  /\ visited' = visited \cup {<<walk_from, library_dir>>}
  /\ UNCHANGED <<dirs, cwd, earlier, INCLUDE_PATHS, pathname, ignore_imports, stack,
                 used_library_dirs, warnings, stop_paths, todo, walk_from>>

\* the for loop is over: create_release_directory returns
find_license_files_return ==
  /\ pc = "for"
  /\ todo = {}
  /\ pc' = "done"
  /\ UNCHANGED <<files, dirs, cwd, earlier, INCLUDE_PATHS, pathname, ignore_imports, stack,
                 used_library_dirs, error, warnings, stop_paths, already_copied, todo,
                 library_dir, walk_from, visited, io>>

(***************************************************************************)
(* The runs that are checked.  The tree holds a project /p with the entry  *)
(* file /p/m, two library roots /r and /q, a directory /pp whose name      *)
(* extends the project's, the output root /o (created empty by _prepare)   *)
(* and a working directory /w.  The contents of the scanned files vary.    *)
(***************************************************************************)
MaxPieces == 4

MaxStmts == 2

Use(p) == <<"u", "s", "e", " ", "<">> \o p \o <<">", ";", "\n">>

Include(p) == <<"i", "n", "c", "l", "u", "d", "e", "<">> \o p \o <<">">>

Import(p) == <<"i", "m", "p", "o", "r", "t", "(", "\"">> \o p \o <<"\"", ")", ";", "\n">>

Pieces ==
  {<<"x">>, <<"\n">>, <<";">>, <<"/">>, <<"*">>, <<"u", "s", "e", " ", "<", "a", ">">>}

Stmts ==
  {Use(<<"a">>), Use(<<"s", "/", "b">>), Use(<<"c">>), Include(<<"f">>),
   Use(<<".", ".", "/", "p", "p", "/", "g">>), Use(<<"z">>),
   Import(<<"t">>), Import(<<"u">>),
   <<"i", "m", "p", "o", "r", "t", "(", "n", ")", ";", "\n">>,
   <<"/", "/", " ">> \o Use(<<"a">>)}

Singles ==
  Stmts \cup
  {<<>>, Import(<<"/", "u">>), Import(<<"v">>), Import(<<"w">>),
   <<"/", "*", " ">> \o Use(<<"a">>) \o <<"*", "/">>,
   <<"x", " ", "=", " ", "1", ";", " ">> \o Use(<<"a">>),
   <<"u", "s", "e", " ", "<", "a">>,
   <<"i", "m", "p", "o", "r", "t", "(", "\"", "t">>}

TextsOf(S, n) == {FlattenSeq(q) : q \in UNION {[1..k -> S] : k \in 0..n}}

Plain == <<"x">>

Texts_a == {Plain, Use(<<"m">>)}

Texts_b == {Plain, Use(<<".", ".", "/", "m">>), Use(<<"c">>), Import(<<"t">>)}

Texts_c == {Plain, Use(<<"a">>), Use(<<"d", "/", "e">>), Use(<<".", ".", "/", "p", "/", "a">>)}

\* contents of /p/s/b that fail, or import from the directory above
Texts_nested ==
  {Import(<<"t">>), Import(<<".", ".", "/", "t">>), Use(<<"z">>), Import(<<"z">>)}

Roots == <<<<"/", "r">>, <<"/", "q">>>>

World(m, a, b, c, roots, wd, ign, readme) ==
  [m |-> m, a |-> a, b |-> b, c |-> c, roots |-> roots, cwd |-> wd, ign |-> ign,
   readme |-> readme]

\* entry files made of lexical pieces; entry files made of statements; include
\* graphs over /p/m, /p/a, /p/s/b and /r/c; the settings of the run; and
\* imports and failures in the included file /p/s/b, with imports on and off
Worlds ==
  {World(m, Plain, Plain, Plain, Roots, <<"/", "w">>, FALSE, FALSE) :
     m \in TextsOf(Pieces, MaxPieces)}
  \cup {World(m, Plain, Plain, Plain, Roots, <<"/", "w">>, FALSE, FALSE) :
          m \in TextsOf(Stmts, MaxStmts)}
  \cup {World(m, a, b, c, Roots, <<"/", "w">>, FALSE, FALSE) :
          m \in TextsOf({Use(<<"a">>), Use(<<"s", "/", "b">>), Use(<<"c">>)}, MaxStmts),
          a \in Texts_a, b \in Texts_b, c \in Texts_c}
  \cup {World(m, Plain, Plain, Plain, w[1], w[2], w[3], w[4]) :
          m \in Singles,
          w \in {Roots, <<Roots[2], Roots[1]>>} \X {<<"/", "w">>, <<"/">>}
                \X BOOLEAN \X BOOLEAN}
  \cup {World(Use(<<"s", "/", "b">>), Plain, b, Plain, Roots, <<"/", "w">>, ign, FALSE) :
          b \in Texts_nested, ign \in BOOLEAN}

Tree(w) ==
  {<<<<"/", "p", "/", "m">>, w.m>>,
   <<<<"/", "p", "/", "a">>, w.a>>,
   <<<<"/", "p", "/", "s", "/", "b">>, w.b>>,
   <<<<"/", "p", "/", "t">>, Use(<<"z">>)>>,
   <<<<"/", "p", "/", "s", "/", "t">>, <<"S">>>>,
   <<<<"/", "r", "/", "c">>, w.c>>,
   <<<<"/", "r", "/", "a">>, <<"y">>>>,
   <<<<"/", "r", "/", "d", "/", "e">>, Plain>>,
   <<<<"/", "r", "/", "R", "E", "A", "D", "M", "E">>, <<"R">>>>,
   <<<<"/", "r", "/", "d", "/", "n", ".", "t", "x", "t">>, <<"N">>>>,
   <<<<"/", "q", "/", "c">>, <<"q">>>>,
   <<<<"/", "q", "/", "f">>, Plain>>,
   <<<<"/", "p", "p", "/", "g">>, Plain>>,
   <<<<"/", "u">>, <<"U">>>>,
   <<<<"/", "w", "/", "v">>, <<"V">>>>,
   <<<<"/", "w", "/", "w">>, <<"W">>>>,
   <<<<"/", "p", "/", "w">>, <<"W">>>>}
  \cup IF w.readme
       THEN {<<<<"/", "p", "/", "R", "E", "A", "D", "M", "E">>, <<"P">>>>}
       ELSE {}

Directories ==
  {<<"/">>, <<"/", "p">>, <<"/", "p", "/", "s">>, <<"/", "r">>, <<"/", "r", "/", "d">>,
   <<"/", "q">>, <<"/", "p", "p">>, <<"/", "w">>, <<"/", "o">>}

Init ==
  \E w \in Worlds :
    /\ files = [x \in {e[1] : e \in Tree(w)} |-> (CHOOSE e \in Tree(w) : e[1] = x)[2]]
    /\ dirs = Directories
    /\ cwd = w.cwd
    /\ INCLUDE_PATHS = w.roots
    /\ pathname = <<"/", "p", "/", "m">>
    /\ ignore_imports = w.ign
    /\ stack = <<>>
    /\ used_library_dirs = {}
    /\ pc = "start"
    /\ error = "none"
    /\ warnings = 0
    /\ stop_paths = <<>>
    /\ already_copied = {}
    /\ todo = {}
    /\ library_dir = NoEnt
    /\ walk_from = NoEnt
    /\ visited = {}
    /\ io = <<>>
    /\ earlier = [run |-> 1, input |-> files, files |-> files, dirs |-> dirs, error |-> "none"]

Next ==
  \/ create_release_directory
  \/ run
  \/ looking_for_word
  \/ building_word
  \/ looking_for_eol
  \/ looking_for_end_of_comment
  \/ looking_for_semicolon
  \/ looking_for_import
  \/ build_import_path
  \/ looking_for_include
  \/ building_include_path
  \/ end_of_file
  \/ find_license_files
  \/ for_library_dir
  \/ while_true
  \/ find_license_files_return

Spec == Init /\ [][Next]_vars

\* The tool is run a second time on what the first run was given: the same
\* entry file, the same filesystem contents (the output root empty again, as
\* _prepare leaves it) and the same ordered library roots.  The result of the
\* first run is kept for comparison.
again ==
  /\ pc \in {"done", "failed"}
  /\ earlier.run = 1
  /\ earlier' = [run |-> 2, input |-> earlier.input, files |-> files, dirs |-> dirs,
                 error |-> error]
  /\ files' = earlier.input
  /\ dirs' = Directories
  /\ stack' = <<>>
  /\ used_library_dirs' = {}
  /\ pc' = "start"
  /\ error' = "none"
  /\ warnings' = 0
  /\ stop_paths' = <<>>
  /\ already_copied' = {}
  /\ todo' = {}
  /\ library_dir' = NoEnt
  /\ walk_from' = NoEnt
  /\ visited' = {}
  /\ io' = <<>>
  /\ UNCHANGED <<cwd, INCLUDE_PATHS, pathname, ignore_imports>>

TwoRuns == Init /\ [][Next \/ again]_vars

(***************************************************************************)
(* The comments of OpenSCAD source text, as the language defines them: a   *)
(* line comment runs from // to the next newline, a block comment from /*  *)
(* to the next */ after it.  Lex is TRUE when position i of text lies in a *)
(* comment, reading on from position k in the given mode.                  *)
(***************************************************************************)
RECURSIVE Lex(_, _, _, _)
Lex(text, k, mode, i) ==
  LET two == IF k < Len(text) THEN <<text[k], text[k + 1]>> ELSE <<>>
  IN IF k > Len(text) \/ k > i THEN FALSE
     ELSE IF mode = "code"
     THEN IF two = <<"/", "/">> THEN i <= k + 1 \/ Lex(text, k + 2, "line", i)
          ELSE IF two = <<"/", "*">> THEN i <= k + 1 \/ Lex(text, k + 2, "block", i)
          ELSE Lex(text, k + 1, "code", i)
     ELSE IF mode = "line"
     THEN i = k \/ Lex(text, k + 1, IF text[k] = "\n" THEN "code" ELSE "line", i)
     ELSE IF two = <<"*", "/">> THEN i <= k + 1 \/ Lex(text, k + 2, "code", i)
          ELSE i = k \/ Lex(text, k + 1, "block", i)

InComment(text, i) == Lex(text, 1, "code", i)

\* a frame whose scanner has just resolved a path: it is calling run() for an
\* included file, or it copied an imported file and looks for the semicolon
Resolved(f) ==
  \/ f.at = "call"
  \/ f.at = "loop" /\ f.state = "_looking_for_semicolon"

\* the position in file_data of the < or " that opened the path the frame is
\* building or has resolved: file_chars was emptied there and grew by one
\* character for each one read since
PathOpener(f) == f.pos - 1 - Len(f.file_chars)

\* C1: the Scanner recognises line comments and block comments, and an
\* include, use or import statement lying inside a comment never triggers a
\* path resolution: whenever a frame has resolved a path, the statement it
\* resolved (located by the character that opens its path) is not in a comment.
C1_NoResolutionInComment ==
  \A i \in 1..Len(stack) :
    Resolved(stack[i]) => ~InComment(stack[i].file_data, PathOpener(stack[i]))

\* the records of the files the run has written or found present
Writes == {"scan", "import"}

Present == {"scan", "import", "exists", "import_exists"}

\* no record of log writes a target that an earlier record wrote or found present
WrittenOnce(log) ==
  \A i, j \in 1..Len(log) :
    i < j /\ log[i].op \in Present /\ log[j].op \in Writes => log[i].dst /= log[j].dst

\* a step of run() on a target that exists changes no file and no directory,
\* writes nothing to the open files and only returns to the caller
SkipsPresentTarget ==
  pc = "scan" /\ stack /= <<>> /\ Top.at = "run" /\ exists(Top.target_path)
    => /\ files' = files /\ dirs' = dirs
       /\ Len(stack') = Len(stack) - 1
       /\ \A i \in 1..Len(stack') :
            stack'[i].fout = stack[i].fout /\ stack'[i].pos = stack[i].pos

\* C2: each output target path is written at most once per run, by the scan of
\* an included file or by the copy of an imported one, and a call of run()
\* whose target already exists returns without reading, writing or scanning.
C2_TargetWrittenOnce == [][SkipsPresentTarget /\ WrittenOnce(io')]_vars

\* C2 witness: a target that was written by a scan has been requested again
\* and found present
C2_SecondRequest ==
  \E i, j \in 1..Len(io) :
    i < j /\ io[i].op = "scan" /\ io[j].op = "exists" /\ io[i].dst = io[j].dst

\* the scans that are in progress
Active == {i \in 1..Len(stack) : stack[i].at /= "run"}

\* C3 as written: when the traversal is over, each source file of the
\* closure has exactly one copy in the output.
C3_OneCopyOfEachFile ==
  pc = "done" =>
    \A i, j \in 1..Len(io) :
      io[i].op = "scan" /\ io[j].op = "scan" /\ io[i].src = io[j].src => i = j

\* the files of the input: everything outside the output tree
SourceFiles == {x \in DOMAIN files : ~startswith(x, root_output_dir \o <<"/">>)}

\* what the traversal has done so far: two for each record, one for each frame,
\* and for each scan the characters it has read (all of them and the close
\* once it is over).  Every step of the traversal adds to it.
Progress ==
  LET read(k) == IF \E i \in Active : stack[i].fd = io[k].dst
                 THEN stack[CHOOSE i \in Active : stack[i].fd = io[k].dst].pos
                 ELSE Len(files[io[k].src]) + 3
      sum[k \in 0..Len(io)] ==
        IF k = 0 THEN 0
        ELSE sum[k - 1] + (IF io[k].op = "scan" THEN read(k) ELSE 0)
  IN 2 * Len(io) + Len(stack) + sum[Len(io)]

\* a bound on Progress that the input fixes: each input file scanned once for
\* each input file, three units for each character of the longest
Limit ==
  LET sizes == {Len(files[x]) : x \in SourceFiles}
      longest == CHOOSE n \in sizes : \A m \in sizes : m <= n
  IN 3 * Cardinality(SourceFiles) * Cardinality(SourceFiles) * (longest + 3)

\* the scans in progress write distinct targets, so that the recursion is no
\* deeper than the number of targets written, and no target is written twice
DistinctTargets ==
  /\ \A i, j \in Active : stack[i].fd = stack[j].fd => i = j
  /\ Len(stack) <= Cardinality({k \in 1..Len(io) : io[k].op = "scan"}) + 1
  /\ WrittenOnce(io)

\* C3, amended: on any include/use graph, cyclic or diamond, the traversal
\* terminates (each of its steps adds to a measure that the input bounds), the
\* scans in progress write pairwise distinct targets (which bounds the
\* recursion depth), and each output target path is written exactly once: a
\* file has one copy for each distinct target path it is mirrored to.
C3_TraversalTerminates ==
  [][/\ DistinctTargets'
     /\ pc = "scan" /\ pc' = "scan" => Progress' > Progress
     /\ Progress' <= Limit]_vars

\* C3 witness: a cycle was cut: a file whose scan is in progress was requested
\* again by a file it includes, and run() returned at once
C3_CycleCut ==
  \E k \in 1..Len(io) : \E i \in Active :
    io[k].op = "exists" /\ io[k].dst = stack[i].fd

(***************************************************************************)
(* The references of a source text, read off the text itself               *)
(***************************************************************************)
WordChar == Upper \cup Lower \cup Digit \cup {"_"}

Blank == {" ", "\t", "\n"}

KwInclude == <<"i", "n", "c", "l", "u", "d", "e">>

KwUse == <<"u", "s", "e">>

KwImport == <<"i", "m", "p", "o", "r", "t">>

\* kw is written in text from position k on
Occurs(text, k, kw) ==
  k >= 1 /\ k + Len(kw) - 1 <= Len(text) /\ SubSeq(text, k, k + Len(kw) - 1) = kw

\* the first position from k on that holds no blank
RECURSIVE SkipBlank(_, _)
SkipBlank(text, k) ==
  IF k <= Len(text) /\ text[k] \in Blank THEN SkipBlank(text, k + 1) ELSE k

\* the first position from k on that holds c, or 0
RECURSIVE FirstOf(_, _, _)
FirstOf(text, k, c) ==
  IF k > Len(text) THEN 0 ELSE IF text[k] = c THEN k ELSE FirstOf(text, k + 1, c)

\* the include and use statements of text with a literal <path>, outside
\* comments: the keyword is a whole word, < follows it after blanks at most, and
\* the path runs to the next >
IncludeStatements(text) ==
  {x \in (1..Len(text)) \X {KwInclude, KwUse} :
     LET k == x[1]
         lt == SkipBlank(text, k + Len(x[2]))
     IN /\ Occurs(text, k, x[2])
        /\ (k = 1 \/ text[k - 1] \notin WordChar)
        /\ ~InComment(text, k)
        /\ lt <= Len(text) /\ text[lt] = "<"
        /\ FirstOf(text, lt + 1, ">") /= 0}

PathOf(text, x) ==
  LET lt == SkipBlank(text, x[1] + Len(x[2]))
  IN SubSeq(text, lt + 1, FirstOf(text, lt + 1, ">") - 1)

\* the output location of the file that path p names in the file scanned from
\* src to dst: mirrored next to dst when p is there next to src, else under the
\* library directory of the output
MirrorOf(src, dst, p) ==
  IF exists(join(dirname(src), p)) THEN join(dirname(dst), p)
  ELSE join(join(root_output_dir, lib_dirname), p)

\* C4: after a successful run, for every file scanned into the output tree,
\* every include or use statement with a literal <path> outside comments has
\* been recognised and its target is present in the output tree, whatever
\* character precedes the keyword.
C4_ClosureComplete ==
  pc = "done" =>
    \A k \in 1..Len(io) :
      io[k].op = "scan" =>
        \A x \in IncludeStatements(files[io[k].src]) :
          exists(MirrorOf(io[k].src, io[k].dst, PathOf(files[io[k].src], x)))

\* text holds nothing that reads as a reference, in a comment or out of one:
\* no include or use followed by <, and no import followed by a quote
NoReference(text) ==
  \A k \in 1..Len(text) :
    /\ \A kw \in {KwInclude, KwUse} :
         Occurs(text, k, kw) =>
           LET lt == SkipBlank(text, k + Len(kw))
           IN lt > Len(text) \/ text[lt] /= "<"
    /\ Occurs(text, k, KwImport) => FirstOf(text, k, "\"") = 0

\* the scans that are over: their target file is closed
Closed == {k \in 1..Len(io) : io[k].op = "scan" /\ \A i \in Active : stack[i].fd /= io[k].dst}

Calls == 2..Len(stack)

CallPath(i) == ButLast(stack[i - 1].file_chars)

\* the last position before k that holds no blank
RECURSIVE BackOverBlank(_, _)
BackOverBlank(text, k) ==
  IF k >= 1 /\ text[k] \in Blank THEN BackOverBlank(text, k - 1) ELSE k

\* the statement that frame f has just read, from its keyword up to the <
StatementHead(f) ==
  LET lt == PathOpener(f)
      q == BackOverBlank(f.file_data, lt - 1)
      start == IF Occurs(f.file_data, q - 2, KwUse) /\ ~Occurs(f.file_data, q - 6, KwInclude)
               THEN q - 2 ELSE q - 6
  IN SubSeq(f.file_data, start, lt)

\* the last position of text that holds c, or 0
RECURSIVE LastOf(_, _, _)
LastOf(text, k, c) ==
  IF k < 1 THEN 0 ELSE IF text[k] = c THEN k ELSE LastOf(text, k - 1, c)

\* the literal of the statement that was written last to fout: what stands
\* between the last < and the > that ends fout
LastLiteral(fout) == SubSeq(fout, LastOf(fout, Len(fout), "<") + 1, Len(fout) - 1)

NextToSource(i) == exists(join(dirname(stack[i - 1].source_path), CallPath(i)))

InRoots(i) == {r \in 1..Len(INCLUDE_PATHS) : exists(join(INCLUDE_PATHS[r], CallPath(i)))}

\* C6: when the path p of an include or use statement exists relative to the
\* directory of the referencing source file, the file p names there is the one
\* taken, it is copied to the same relative path p under the directory of the
\* referencing output file, and the statement is written to the output as it
\* was read, even if p also exists under a library root.
C6_RelativeReference ==
  \A i \in Calls :
    NextToSource(i) =>
      LET parent == stack[i - 1]
          child == stack[i]
          p == CallPath(i)
      IN /\ child.source_path = join(dirname(parent.source_path), p)
         /\ child.target_path = join(dirname(parent.target_path), p)
         /\ endswith(parent.fout, StatementHead(parent) \o p \o <<">">>)
         /\ child.at /= "run" =>
              /\ child.fd = realpath(join(dirname(parent.fd), p))
              /\ child.file_data = files[realpath(join(dirname(parent.source_path), p))]

\* C6 witness: a statement was resolved whose path exists next to the
\* referencing file and under a library root as well
C6_RelativeAndInRoot ==
  /\ Len(stack) >= 2 /\ Top.at = "run"
  /\ NextToSource(Len(stack)) /\ InRoots(Len(stack)) /= {}

\* C7: when the path p of an include or use statement does not exist next to
\* the referencing source file but exists under a library root, the source is
\* taken from the first root in configured order that holds p, the file is
\* placed at <output root>/<lib_dirname>/p, and the literal is rewritten so
\* that, resolved from the directory of the referencing output file, it names
\* exactly the copied file; the rest of the statement is written as read.
C7_LibraryReference ==
  \A i \in Calls :
    ~NextToSource(i) /\ InRoots(i) /= {} =>
      LET parent == stack[i - 1]
          child == stack[i]
          p == CallPath(i)
          first == CHOOSE r \in InRoots(i) : \A q \in InRoots(i) : r <= q
          literal == LastLiteral(parent.fout)
      IN /\ child.source_path = join(INCLUDE_PATHS[first], p)
         /\ child.target_path = join(join(root_output_dir, lib_dirname), p)
         /\ endswith(parent.fout, StatementHead(parent) \o literal \o <<">">>)
         /\ normpath(join(dirname(parent.target_path), literal)) = normpath(child.target_path)
         /\ child.at /= "run" =>
              /\ child.fd = realpath(join(dirname(parent.fd), literal))
              /\ child.file_data = files[realpath(join(INCLUDE_PATHS[first], p))]

\* C7 witness: a file in a subdirectory of the output referred to a path that
\* two library roots hold, and the literal written climbs out of the
\* subdirectory
C7_NestedLibraryReference ==
  /\ Len(stack) >= 2 /\ Top.at = "run"
  /\ ~NextToSource(Len(stack)) /\ Cardinality(InRoots(Len(stack))) = 2
  /\ startswith(LastLiteral(stack[Len(stack) - 1].fout), <<".", ".", "/">>)

\* the records of the import statements that were resolved
Imports == {k \in 1..Len(io) : io[k].op \in {"import", "import_exists"}}

\* C8: after a successful run, for every import statement with a literal path
\* in any scanned file, the literal written into the output statement, resolved
\* from the directory of the output file that holds it, names the file that
\* was copied for that import.
C8_ImportLiteralValid ==
  pc = "done" =>
    \A k \in Imports : realpath(join(dirname(io[k].by), io[k].lit)) = io[k].dst

\* C9: ImportNotFound is raised only if the import path exists neither at its
\* first candidate location nor relative to the parent directory of the
\* directory of the top-level input file.
C9_ImportFallback ==
  \A k \in 1..Len(io) :
    io[k].op = "ImportNotFoundError" =>
      ~exists(join(dirname(dirname(abspath(pathname))), io[k].lit))

\* directory d is boundary directory b or lies below it
Within(d, b) ==
  d = b \/ startswith(d, IF b = <<"/">> THEN b ELSE b \o <<"/">>)

\* C10: the upward walk of the license sweep never visits a directory above or
\* outside the boundary directories (the library roots and the project
\* directory), and stops once it has processed a boundary directory, also when
\* the path of a contributing directory merely has a boundary path as a
\* string prefix.
C10_SweepStaysWithinBoundary ==
  \A v \in visited :
    \E i \in 1..Len(stop_paths) :
      /\ Within(v[2], stop_paths[i])
      /\ <<v[1], dirname(stop_paths[i])>> \in visited => dirname(stop_paths[i]) = stop_paths[i]

\* C11: throughout a run, at most one file is ever written at any output
\* path: no scan, import copy or license copy writes a path that an earlier
\* step wrote or found present.
C11_OutputWrittenOnce ==
  \A i, j \in 1..Len(io) :
    /\ i < j
    /\ io[i].op \in Present \cup {"license"}
    /\ io[j].op \in Writes \cup {"license"}
    => io[i].dst /= io[j].dst

\* the scanner of the frame on top is about to read a character in this state
Reading(state) ==
  /\ pc = "scan" /\ stack /= <<>> /\ Top.at = "loop"
  /\ Top.pos <= Len(Top.file_data)
  /\ Top.state = state

\* C12: when the scanner, looking for the quote of an import statement, reaches
\* a closing parenthesis first, it gives one warning and returns to looking
\* for a word; no error is raised, no file or directory is created or changed,
\* nothing is copied, and the statement stands in the output as it was read.
C12_NonLiteralImport ==
  [][Reading("_looking_for_import") /\ Cur = ")" =>
       /\ warnings' = warnings + 1
       /\ pc' = "scan" /\ error' = "none"
       /\ files' = files /\ dirs' = dirs /\ io' = io
       /\ used_library_dirs' = used_library_dirs
       /\ Len(stack') = Len(stack)
       /\ stack'[Len(stack)].state = "_looking_for_word"
       /\ stack'[Len(stack)].fout = Top.fout \o <<")">>
       /\ endswith(stack'[Len(stack)].fout, Top.file_chars \o <<")">>)]_vars

\* C12 witness: the scanner has just warned about import(n) and gone on
C12_Warned ==
  /\ pc = "scan" /\ stack /= <<>> /\ Top.at = "loop"
  /\ Top.warned = 1 /\ Top.state = "_looking_for_word"
  /\ Top.pos > 1 /\ Top.file_data[Top.pos - 1] = ")"
  /\ endswith(Top.fout, KwImport \o <<"(", "n", ")">>)
  /\ Imports = {} /\ error = "none"

NotFound == {"IncludeNotFoundError", "ImportNotFoundError"}

\* the step raises err and the run is over: every scan in progress is given
\* up, the sweep has not run and will not, nothing is copied, no directory is
\* made, and the files written so far stay as they are (the open ones hold
\* what was written to them)
Aborts(err) ==
  /\ error' = err /\ pc' = "failed" /\ stack' = <<>>
  /\ dirs' = dirs /\ DOMAIN files' = DOMAIN files
  /\ \A x \in DOMAIN files :
       files'[x] = IF \E i \in Active : stack[i].fd = x
                   THEN stack[CHOOSE i \in Active : stack[i].fd = x].fout
                   ELSE files[x]
  /\ Len(io') = Len(io) + 1 /\ SubSeq(io', 1, Len(io)) = io /\ io'[Len(io')].op = err
  /\ visited' = {} /\ already_copied' = {}

\* the include path that ends here is found neither next to the referencing
\* file nor under a library root
IncludeMissing ==
  /\ Reading("_building_include_path") /\ Cur = ">"
  /\ ~exists(join(dirname(Top.source_path), Top.file_chars))
  /\ \A r \in 1..Len(INCLUDE_PATHS) : ~exists(join(INCLUDE_PATHS[r], Top.file_chars))

\* the import path that ends here is found at no location that is tried
ImportMissing ==
  /\ Reading("_build_import_path") /\ Cur = "\""
  /\ ~exists(IF isabs(Top.file_chars) THEN Top.file_chars
             ELSE join(dirname(Top.source_path), Top.file_chars))
  /\ ~exists(join(dirname(dirname(abspath(pathname))), Top.file_chars))
  /\ ~exists(Top.file_chars)

\* C13: an include or use path that is found nowhere raises IncludeNotFound,
\* an import path that is found nowhere raises ImportNotFound; the error
\* leaves every enclosing scan and ends the run: after it no step is taken (no
\* file is scanned, copied or written, the license sweep does not run), and
\* the files already written to the output stay in place.
C13_FatalErrorAborts ==
  [][/\ pc /= "failed"
     /\ IncludeMissing => Aborts("IncludeNotFoundError")
     /\ ImportMissing => Aborts("ImportNotFoundError")
     /\ error' \in NotFound => Aborts(error')]_vars

\* C13 witness: IncludeNotFound was raised in an included file, with the output
\* of the entry file and of the included file left in place
C13_NestedIncludeNotFound ==
  /\ pc = "failed" /\ error = "IncludeNotFoundError" /\ stack = <<>>
  /\ \E i, j \in 1..Len(io) :
       /\ i < j /\ io[i].op = "scan" /\ io[j].op = "scan"
       /\ io[Len(io)].by = io[j].dst
       /\ io[i].dst \in DOMAIN files /\ files[io[i].dst] /= <<>>
       /\ io[j].dst \in DOMAIN files

\* the character read in _building_word ends the word built so far: it is
\* neither a word character nor the second character of a comment opener
WordEnds ==
  /\ Reading("_building_word")
  /\ Cur \notin WordChar
  /\ ~(Cur \in {"/", "*"} /\ Top.file_chars[Len(Top.file_chars)] = "/")

\* C14: when a token ends on a terminator character, the character is written
\* once and replayed into the state entered next: after include or use a "<"
\* opens the path, after import a "(" is kept for the quote that follows, and
\* after any other token a terminator that is not whitespace begins the next
\* token.
C14_TerminatorReplayed ==
  [][WordEnds =>
       LET word == Top.file_chars
           g == stack'[Len(stack)]
       IN /\ Len(stack') = Len(stack)
          /\ g.fout = Top.fout \o <<Cur>>
          /\ IF word \in {KwInclude, KwUse}
             THEN Cur = "<" => g.state = "_building_include_path" /\ g.file_chars = <<>>
             ELSE IF word = KwImport /\ ~Top.ignore_imports
             THEN Cur = "(" => g.state = "_looking_for_import" /\ endswith(g.file_chars, <<"(">>)
             ELSE IF Cur \in Blank
             THEN g.state = "_looking_for_word"
             ELSE g.state = "_building_word" /\ g.file_chars = <<Cur>>]_vars

\* no path literal is closed in the text: it holds no ">" and at most one
\* double quote, so a path that was opened runs to the end of the file
NoLiteralClosed(text) ==
  /\ \A k \in 1..Len(text) : text[k] /= ">"
  /\ Cardinality({k \in 1..Len(text) : text[k] = "\""}) <= 1

\* C15: every input character is written exactly once and in order, the
\* characters of a resolved path literal excepted; so a file in which no path
\* literal is closed, a file that ends in the middle of an include or import
\* path included, comes out equal to the input once its scan is over.
C15_OneWritePerCharacter ==
  pc /= "failed" =>
    \A k \in Closed :
      NoLiteralClosed(files[io[k].src]) => files[io[k].dst] = files[io[k].src]

\* the directories of the source files that were opened and read so far
ReadDirs == {dirname(io[k].src) : k \in {i \in 1..Len(io) : io[i].op = "scan"}}

\* the directories of the files whose copy was requested and is about to be
\* decided
PendingDirs == {abspath(dirname(stack[i].source_path)) : i \in (1..Len(stack)) \ Active}

\* C16: at every point of the traversal the set of contributing directories
\* is the set of directories of the source files read so far; a request that
\* returns because its target exists adds nothing.
C16_ContributingDirsAreRead ==
  pc \in {"scan", "find_license_files"} =>
    /\ ReadDirs \subseteq used_library_dirs
    /\ used_library_dirs \subseteq ReadDirs \cup PendingDirs

\* the license artifacts that lie directly in directory d
LicenseNames == {<<"C", "O", "P", "Y", "I", "N", "G">>, <<"R", "E", "A", "D", "M", "E">>}

LicenseSuffixes == {<<".", "m", "d">>, <<".", "M", "D">>, <<".", "t", "x", "t">>, <<".", "T", "X", "T">>}

LicenseFilesIn(d) ==
  {x \in DOMAIN files :
     /\ dirname(x) = d
     /\ \/ split(x)[2] \in LicenseNames
        \/ \E sfx \in LicenseSuffixes : endswith(split(x)[2], sfx)}

\* C17: when the sweep has processed a level d of the walk from a contributing
\* directory that lies within a boundary directory, every license artifact in
\* d is present in the output library directory at its path relative to the
\* boundary, also when the traversal has not created that directory; and no
\* source path is copied twice.
C17_LicensePlaced ==
  [][pc = "while" /\ (\E b \in stop_set : Within(library_dir, b)) =>
       /\ \A x \in LicenseFilesIn(library_dir) :
            \E b \in stop_set :
              /\ Within(library_dir, b)
              /\ join(output_library_dir, From(x, Len(b) + 1)) \in DOMAIN files'
       /\ \A i, j \in 1..Len(io') :
            io'[i].op = "license" /\ io'[j].op = "license" /\ i /= j
              => io'[i].src /= io'[j].src]_vars

\* the last record of the log after the step
Logged == io'[Len(io')]

\* C18: resolving an import copies the source file verbatim to its target only
\* if the target is absent, starts no scan of it (no call is made, nothing
\* else is written, no directory becomes contributing), and the scanner then
\* copies the rest of the statement character by character up to and
\* including the next ";", where it returns to _looking_for_word.
C18_ImportCopiedNotScanned ==
  [][/\ Reading("_build_import_path") /\ Cur = "\"" /\ error' = "none" =>
          /\ Len(stack') = Len(stack)
          /\ stack'[Len(stack)].state = "_looking_for_semicolon"
          /\ used_library_dirs' = used_library_dirs
          /\ Len(io') = Len(io) + 1 /\ SubSeq(io', 1, Len(io)) = io
          /\ Logged.op \in {"import", "import_exists"}
          /\ Logged.op = "import_exists" => Logged.dst \in DOMAIN files /\ files' = files
          /\ Logged.op = "import" =>
               /\ Logged.dst \notin DOMAIN files
               /\ DOMAIN files' = DOMAIN files \cup {Logged.dst}
               /\ files'[Logged.dst] = files[Logged.src]
               /\ \A x \in DOMAIN files : files'[x] = files[x]
     /\ Reading("_looking_for_semicolon") =>
          /\ Len(stack') = Len(stack)
          /\ stack'[Len(stack)].fout = Top.fout \o <<Cur>>
          /\ stack'[Len(stack)].state =
               IF Cur = ";" THEN "_looking_for_word" ELSE "_looking_for_semicolon"
          /\ files' = files /\ io' = io]_vars

\* C18 witness: a file that holds a reference was imported and copied as it
\* is, the statement was copied up to its ";", and the traversal ended
\* with no scan of the imported file and no error
C18_ImportedReferenceIgnored ==
  /\ pc = "find_license_files" /\ error = "none"
  /\ \E k \in 1..Len(io) :
       /\ io[k].op = "import"
       /\ ~NoReference(files[io[k].src])
       /\ files[io[k].dst] = files[io[k].src]
       /\ \A i \in 1..Len(io) : io[i].op = "scan" => io[i].src /= io[k].src
       /\ \E i \in 1..Len(io) :
            /\ io[i].op = "scan" /\ io[i].dst = io[k].by
            /\ endswith(files[io[i].dst], io[k].lit \o <<"\"", ")", ";", "\n">>)

ImportStates == {"_looking_for_import", "_build_import_path", "_looking_for_semicolon"}

NoAngle(text) == \A k \in 1..Len(text) : text[k] /= "<"

\* C19: with import parsing disabled, in the entry file and in every file
\* scanned from it the scanner is never in a state of the import handling, no
\* import target is resolved or copied, the scan gives no warning and no
\* ImportNotFound, and a file without an include or use path is written as it
\* is read, its import statements unchanged.
C19_ImportsIgnored ==
  ignore_imports =>
    /\ \A i \in 1..Len(stack) :
         /\ stack[i].ignore_imports
         /\ stack[i].state \notin ImportStates
         /\ stack[i].warned = 0
         /\ i \in Active /\ NoAngle(stack[i].file_data) =>
              stack[i].fout = SubSeq(stack[i].file_data, 1, stack[i].pos - 1)
    /\ \A k \in 1..Len(io) : io[k].op \notin {"import", "import_exists", "ImportNotFoundError"}
    /\ error /= "ImportNotFoundError"
    /\ pc = "scan" => warnings = 0
    /\ pc /= "failed" =>
         \A k \in Closed : NoAngle(files[io[k].src]) => files[io[k].dst] = files[io[k].src]

\* C19 witness: with import parsing disabled, a file reached through a use
\* statement holds an import statement whose target does not exist; its scan
\* is over, the statement is in its output, and nothing was raised
C19_NestedImportIgnored ==
  /\ ignore_imports /\ error = "none"
  /\ \E k \in Closed :
       /\ k > 1
       /\ \E q \in 1..Len(files[io[k].src]) : Occurs(files[io[k].src], q, KwImport \o <<"(", "\"", "z">>)
       /\ files[io[k].dst] = files[io[k].src]

\* C20: every file or directory created during a run (scan outputs, import
\* copies, license artifacts and the directories made for them) lies inside
\* the output root directory, whatever the reference path, paths with ".."
\* components included.
C20_OutputContained ==
  /\ \A k \in 1..Len(io) :
       io[k].op \in Writes \cup {"license"} => Within(io[k].dst, root_output_dir)
  /\ \A d \in dirs \ Directories : Within(d, root_output_dir)

\* C21: two runs on the same entry file, filesystem contents and ordered
\* library roots end with the same files holding the same contents and with
\* the same directories, whatever the order in which the license sweep takes
\* the contributing directories and the boundary directories.
C21_SameOutputTwice ==
  earlier.run = 2 /\ pc \in {"done", "failed"} =>
    /\ DOMAIN files = DOMAIN earlier.files
    /\ \A x \in DOMAIN files : files[x] = earlier.files[x]
    /\ dirs = earlier.dirs

====
